---------------------------- MODULE Spec2Model ----------------------------
(***************************************************************************)
(* Model of xmlschema/validator.py: the base class XMLSchemaValidator.      *)
(*                                                                         *)
(* Two parts share the node identity only:                                 *)
(*   - the validity tracker (_check_token, _valid, check(), checked,       *)
(*     valid, validity, validation_attempted);                             *)
(*   - the decode/encode drivers (validate, iter_errors, is_valid, decode, *)
(*     encode) that pull items from the lazy stream of iter_decode /       *)
(*     iter_encode.                                                        *)
(*                                                                         *)
(* Python values are modelled as follows.  The values of _valid are the    *)
(* strings "None", "True", "False".  A check token is a number; the token  *)
(* None is NoneToken.  An item of a stream, a returned value or a raised   *)
(* exception is a record [kind, id].                                       *)
(***************************************************************************)
EXTENDS Integers, Sequences, FiniteSets

VARIABLES
    check_token,    \* what the node kind's check_token property returns now
    _check_token,   \* [Node -> token]  the attribute self._check_token
    _valid,         \* [Node -> "None" | "True" | "False"]  the attribute self._valid
    hist,           \* history of the tracker: who was checked, under what, last operation
    call,           \* the driver call in progress (one caller at a time)
    audit,          \* history: check() calls since the token changed, last writer of _valid
    pass            \* the check pass of the schema compiler over the node graph

vars == <<check_token, _check_token, _valid, hist, call, audit, pass>>

---------------------------------------------------------------------------
(* Bounds of the model *)

\* Check tokens other than None are 1..MaxToken.
MaxToken == 2
\* A stream of iter_decode / iter_encode holds at most MaxStreamLen items.
MaxStreamLen == 3
\* The validation errors of a stream are drawn from 1..MaxErrorId.
MaxErrorId == 2

\* The history counts at most MaxChecks calls of check() per node and generation.
MaxChecks == 2
\* The recursion of a check pass is cut off at MaxDepth nested calls.
MaxDepth == 4

\* The token None: the initial value of self._check_token.
NoneToken == 0

Node == {"A", "B"}

\* A node of a kind that supplies none of check_token, iter_decode, iter_encode:
\* it has the members of the base class.
Abstract == {"Base"}
Tokens == {NoneToken} \cup (1..MaxToken)

---------------------------------------------------------------------------
(* Python values *)

None == [kind |-> "None", id |-> 0]
PyBool(b) == [kind |-> "bool", id |-> IF b THEN 1 ELSE 0]
XMLSchemaValidationError(i) == [kind |-> "XMLSchemaValidationError", id |-> i]
DecodedValue == [kind |-> "value", id |-> 1]

\* isinstance(chunk, XMLSchemaValidationError)
isinstance_XMLSchemaValidationError(chunk) == chunk.kind = "XMLSchemaValidationError"

XSD_VALIDATION_MODES == {"strict", "lax", "skip"}

\* The exception of the abstract members of the base class.
NotImplementedError == [kind |-> "NotImplementedError", id |-> 0]

---------------------------------------------------------------------------
(* The validity tracker *)

\* __init__: both attributes start as None.
__init__ ==
    /\ _check_token = [n \in Node |-> NoneToken]
    /\ _valid = [n \in Node |-> "None"]

\* check_value(value, None, True, False) of utils: the value must be one of the three.
check_value(value) == value \in {"None", "True", "False"}

\* A variant of checked that tests "was stamped once" instead of freshness.
checked_Visited(n) == _check_token[n] # NoneToken

\* property checked: self._check_token == self.check_token
checked(n) == _check_token[n] = check_token

\* property valid
valid(n) == IF checked(n) THEN _valid[n] ELSE "None"

\* A variant of validity that reports the stored state without the test of checked.
validity_Stale(n) ==
    IF _valid[n] = "True" THEN "valid"
    ELSE IF _valid[n] = "False" THEN "invalid"
    ELSE "notKnown"

\* property validity
validity(n) ==
    IF checked(n) /\ _valid[n] = "True" THEN "valid"
    ELSE IF checked(n) /\ _valid[n] = "False" THEN "invalid"
    ELSE "notKnown"

\* property validation_attempted
validation_attempted(n) == IF checked(n) THEN "full" ELSE "none"

NoCall == [pc |-> "idle", op |-> "none", node |-> "A", arg |-> "absent", validation |-> "none",
           stream |-> <<>>, pulled |-> 0, yielded |-> <<>>,
           outcome |-> "none", result |-> None]

InitHist == [everChecked |-> [n \in Node |-> FALSE],
             checkedUnder |-> [n \in Node |-> NoneToken],
             last |-> [op |-> "init", node |-> "A"]]

InitAudit == [checks |-> [n \in Node |-> 0],
              lastWrite |-> [n \in Node |-> "init"],
              overwrote |-> [n \in Node |-> FALSE]]

NoPass == [pc |-> "idle", stack |-> <<>>]

Init ==
    /\ check_token \in Tokens
    /\ __init__
    /\ hist = InitHist
    /\ call = NoCall
    /\ audit = InitAudit
    /\ pass = NoPass

\* A variant of check() that stamps the token and leaves _valid as it was.
check_StampOnly(n) ==
    /\ _check_token' = [_check_token EXCEPT ![n] = check_token]
    /\ hist' = [everChecked |-> [hist.everChecked EXCEPT ![n] = TRUE],
                checkedUnder |-> [hist.checkedUnder EXCEPT ![n] = check_token],
                last |-> [op |-> "check", node |-> n]]
    /\ UNCHANGED <<check_token, _valid, call>>

\* A variant of check() that stores "not yet checked" as the validity:
\* self._valid = not self.checked, then the stamp.
check_ValidIfNew(n) ==
    /\ _check_token' = [_check_token EXCEPT ![n] = check_token]
    /\ _valid' = [_valid EXCEPT ![n] = IF _check_token[n] = check_token THEN "False" ELSE "True"]
    /\ hist' = [everChecked |-> [hist.everChecked EXCEPT ![n] = TRUE],
                checkedUnder |-> [hist.checkedUnder EXCEPT ![n] = check_token],
                last |-> [op |-> "check", node |-> n]]
    /\ UNCHANGED <<check_token, call>>

\* A variant of check() that sets _valid and forgets to stamp the token.
check_NoStamp(n) ==
    /\ _valid' = [_valid EXCEPT ![n] = "True"]
    /\ hist' = [everChecked |-> [hist.everChecked EXCEPT ![n] = TRUE],
                checkedUnder |-> [hist.checkedUnder EXCEPT ![n] = check_token],
                last |-> [op |-> "check", node |-> n]]
    /\ UNCHANGED <<check_token, _check_token, call>>

\* check(): self._check_token = self.check_token; self._valid = True
check(n) ==
    /\ _check_token' = [_check_token EXCEPT ![n] = check_token]
    /\ _valid' = [_valid EXCEPT ![n] = "True"]
    /\ hist' = [everChecked |-> [hist.everChecked EXCEPT ![n] = TRUE],
                checkedUnder |-> [hist.checkedUnder EXCEPT ![n] = check_token],
                last |-> [op |-> "check", node |-> n]]
    /\ UNCHANGED <<check_token, call>>

\* A variant of __setattr__ without the call of check_value.
__setattr___Unchecked(n, value) ==
    /\ _valid' = [_valid EXCEPT ![n] = value]
    /\ hist' = [hist EXCEPT !.last = [op |-> "setattr", node |-> n]]
    /\ UNCHANGED <<check_token, _check_token, call>>

\* __setattr__('_valid', value): the external compiler marks the node.  A value
\* that check_value refuses raises and the attribute keeps its value.
__setattr__(n, value) ==
    /\ IF check_value(value)
         THEN /\ _valid' = [_valid EXCEPT ![n] = value]
              /\ hist' = [hist EXCEPT !.last = [op |-> "setattr", node |-> n]]
         ELSE /\ _valid' = _valid
              /\ hist' = [hist EXCEPT !.last = [op |-> "setattr_raised", node |-> n]]
    /\ UNCHANGED <<check_token, _check_token, call>>

\* The owner of the tokens starts a new pass: check_token returns another value
\* (any value, also one it returned in an earlier pass).
NewToken(t) ==
    /\ t # check_token
    /\ check_token' = t
    /\ hist' = [hist EXCEPT !.last = [op |-> "new_token", node |-> "A"]]
    /\ UNCHANGED <<_check_token, _valid, call>>

\* The history of a check() call on n: one more call in this generation,
\* check() is the last writer of n's _valid, and whether the call found the
\* compiler's marking False stored.
AuditCheck(n) ==
    audit' = [checks |-> [audit.checks EXCEPT ![n] = IF @ < MaxChecks THEN @ + 1 ELSE @],
              lastWrite |-> [audit.lastWrite EXCEPT ![n] = "check"],
              overwrote |-> [audit.overwrote EXCEPT ![n] = (_valid[n] = "False")]]

\* The schema compiler calls check() on a node.
CompilerCheck(n) ==
    /\ check(n)
    /\ AuditCheck(n)
    /\ UNCHANGED pass

\* The schema compiler assigns _valid of a node (its marking of the node).
CompilerMark(n, value) ==
    /\ __setattr__(n, value)
    /\ audit' = IF hist'.last.op = "setattr"
                    THEN [audit EXCEPT !.lastWrite[n] = "setattr"]
                    ELSE audit
    /\ UNCHANGED pass

\* The owner of the tokens starts a new generation.
NewPass(t) ==
    /\ NewToken(t)
    /\ audit' = [audit EXCEPT !.checks = [n \in Node |-> 0]]
    /\ UNCHANGED pass

NextTracker ==
    \/ \E n \in Node : CompilerCheck(n)
    \/ \E n \in Node, value \in {"None", "True", "False", "other"} : CompilerMark(n, value)
    \/ \E t \in Tokens : NewPass(t)

SpecTracker == Init /\ [][NextTracker]_vars

---------------------------------------------------------------------------
(* The check pass over a circular schema *)

\* The nodes each node refers to: A and B refer to each other.
References == [n \in Node |-> IF n = "A" THEN <<"B">> ELSE <<"A">>]

\* The check of a concrete node kind, as the compiler's pass runs it:
\*     if self.checked: return
\*     XMLSchemaValidator.check(self)
\*     for ref in references: ref.check()
\* A frame of the recursion is [node, next]: next = 0 before the test of
\* checked, and the index of the next reference to visit after the stamp.
Top == pass.stack[Len(pass.stack)]

Pop ==
    LET rest == SubSeq(pass.stack, 1, Len(pass.stack) - 1) IN
    pass' = [pc |-> IF rest = <<>> THEN "done" ELSE "running", stack |-> rest]

\* The compiler starts a full check pass at node n.
StartPass(n) ==
    /\ pass.pc # "running"
    /\ pass' = [pc |-> "running", stack |-> <<[node |-> n, next |-> 0]>>]
    /\ UNCHANGED <<check_token, _check_token, _valid, hist, call, audit>>

\* The visited node is already checked in this generation: the visit returns.
PassSkip ==
    /\ pass.pc = "running" /\ Top.next = 0
    /\ checked(Top.node)
    /\ Pop
    /\ UNCHANGED <<check_token, _check_token, _valid, hist, call, audit>>

\* The visited node is not checked: it is stamped by check() before its
\* references are visited.
PassStamp ==
    /\ pass.pc = "running" /\ Top.next = 0
    /\ ~checked(Top.node)
    /\ check(Top.node)
    /\ AuditCheck(Top.node)
    /\ pass' = [pass EXCEPT !.stack[Len(pass.stack)].next = 1]

\* The visit goes down to the next reference of the node (a nested call).
PassDescend ==
    /\ pass.pc = "running" /\ Top.next >= 1
    /\ Top.next <= Len(References[Top.node])
    /\ Len(pass.stack) < MaxDepth
    /\ pass' = [pass EXCEPT !.stack =
                    Append([@ EXCEPT ![Len(@)].next = Top.next + 1],
                           [node |-> References[Top.node][Top.next], next |-> 0])]
    /\ UNCHANGED <<check_token, _check_token, _valid, hist, call, audit>>

\* All references of the node are visited: the visit returns.
PassReturn ==
    /\ pass.pc = "running" /\ Top.next >= 1
    /\ Top.next > Len(References[Top.node])
    /\ Pop
    /\ UNCHANGED <<check_token, _check_token, _valid, hist, call, audit>>

PassStep == PassSkip \/ PassStamp \/ PassDescend \/ PassReturn

\* Between two passes the owner of the tokens starts a new generation; the
\* result of the last pass is then history.
NewGeneration(t) ==
    /\ pass.pc # "running"
    /\ NewToken(t)
    /\ audit' = [audit EXCEPT !.checks = [n \in Node |-> 0]]
    /\ pass' = NoPass

\* Between two passes the compiler marks a node as invalid.
MarkInvalid(n) ==
    /\ pass.pc # "running"
    /\ __setattr__(n, "False")
    /\ audit' = [audit EXCEPT !.lastWrite[n] = "setattr"]
    /\ UNCHANGED pass

NextPass ==
    \/ \E n \in Node : StartPass(n)
    \/ PassSkip
    \/ PassStamp
    \/ PassDescend
    \/ PassReturn
    \/ \E t \in Tokens : NewGeneration(t)
    \/ \E n \in Node : MarkInvalid(n)

\* A pass that has started keeps running: nothing else is scheduled in the
\* single thread of the compiler.
SpecPass == Init /\ [][NextPass]_vars /\ WF_vars(PassStep)

---------------------------------------------------------------------------
(* The decode/encode drivers *)

\* The items a concrete iter_decode / iter_encode yields: validation errors
\* and decoded (encoded) values.
Items == {XMLSchemaValidationError(i) : i \in 1..MaxErrorId} \cup {DecodedValue}

\* The finite item streams of a concrete iter_decode / iter_encode.  The input
\* data is identified with the stream the node produces for it.
Streams == UNION { [1..k -> Items] : k \in 0..MaxStreamLen }

\* The shape the docstring of iter_decode promises: "a data structure after a
\* sequence, possibly empty, of validation or decode errors", that is, only
\* the last item of the stream may be a value.
Documented(stream) ==
    \A i \in 1..Len(stream) :
        i < Len(stream) => isinstance_XMLSchemaValidationError(stream[i])

\* What the caller passes as the keyword argument validation ("absent": not
\* given; "other": a value that is none of XSD_VALIDATION_MODES).
ValidationArgs == XSD_VALIDATION_MODES \cup {"absent", "other"}

\* kwargs.pop('validation', default)
kwargs_pop(arg, default) == IF arg = "absent" THEN default ELSE arg

\* A variant of the base iter_decode that returns an empty generator.
iter_decode_Empty(n, data) == [raised |-> FALSE, stream |-> IF n \in Abstract THEN <<>> ELSE data]

\* The call self.iter_decode(data, ...): the base class raises
\* NotImplementedError, a concrete kind returns the generator of its stream.
iter_decode(n, data) == [raised |-> n \in Abstract, stream |-> data]

\* The call self.iter_encode(data, ...): as iter_decode.
iter_encode(n, data) == [raised |-> n \in Abstract, stream |-> data]

\* The read of the property self.check_token: the base class raises
\* NotImplementedError, a concrete kind returns the current token.
get_check_token(n) == [raised |-> n \in Abstract, value |-> check_token]

\* What a driver or a property does when an abstract member raises: the
\* exception passes through to the caller, no item was requested.
Unsupported == [outcome |-> "raised", result |-> NotImplementedError, pulled |-> 0]

\* One request for the next item of the iter_decode / iter_encode generator that
\* has already been asked `pulled` times: the item, or StopIteration.
StopIteration == [kind |-> "StopIteration", id |-> 0]
next_chunk(stream, pulled) ==
    IF pulled + 1 <= Len(stream) THEN stream[pulled + 1] ELSE StopIteration

\* A variant of the generator iter_errors that builds the whole list of errors
\* before it yields the first one.
RECURSIVE iter_errors_Eager(_, _)
iter_errors_Eager(stream, pulled) ==
    LET chunk == next_chunk(stream, pulled) IN
    IF chunk = StopIteration
        THEN [item |-> StopIteration, pulled |-> pulled + 1]
    ELSE IF isinstance_XMLSchemaValidationError(chunk)
        THEN [item |-> chunk, pulled |-> Len(stream) + 1]
    ELSE iter_errors_Eager(stream, pulled + 1)

\* A variant of the generator iter_errors that yields the chunks that are not errors.
RECURSIVE iter_errors_Negated(_, _)
iter_errors_Negated(stream, pulled) ==
    LET chunk == next_chunk(stream, pulled) IN
    IF chunk = StopIteration
        THEN [item |-> StopIteration, pulled |-> pulled + 1]
    ELSE IF ~isinstance_XMLSchemaValidationError(chunk)
        THEN [item |-> chunk, pulled |-> pulled + 1]
    ELSE iter_errors_Negated(stream, pulled + 1)

\* One next() on the generator iter_errors: it pulls chunks from iter_decode
\* until one is a validation error, which it yields, or until the stream ends.
\*     for chunk in self.iter_decode(data, path, validation='lax', ...):
\*         if isinstance(chunk, XMLSchemaValidationError):
\*             yield chunk
RECURSIVE iter_errors(_, _)
iter_errors(stream, pulled) ==
    LET chunk == next_chunk(stream, pulled) IN
    IF chunk = StopIteration
        THEN [item |-> StopIteration, pulled |-> pulled + 1]
    ELSE IF isinstance_XMLSchemaValidationError(chunk)
        THEN [item |-> chunk, pulled |-> pulled + 1]
    ELSE iter_errors(stream, pulled + 1)

\* A variant of validate that goes through all the errors and raises the last.
RECURSIVE validate_RaiseLast(_, _)
validate_RaiseLast(stream, pulled) ==
    LET r == iter_errors(stream, pulled) IN
    IF r.item = StopIteration
        THEN [outcome |-> "returned", result |-> None, pulled |-> r.pulled]
    ELSE LET rest == validate_RaiseLast(stream, r.pulled) IN
         IF rest.outcome = "raised" THEN rest
         ELSE [outcome |-> "raised", result |-> r.item, pulled |-> rest.pulled]

\* validate: for error in self.iter_errors(data, ...): raise error
validate(stream, pulled) ==
    LET r == iter_errors(stream, pulled) IN
    IF r.item = StopIteration
        THEN [outcome |-> "returned", result |-> None, pulled |-> r.pulled]
        ELSE [outcome |-> "raised", result |-> r.item, pulled |-> r.pulled]

\* A variant of is_valid with the test inverted.
is_valid_Inverted(stream, pulled) ==
    LET r == iter_errors(stream, pulled)
        error == IF r.item = StopIteration THEN None ELSE r.item
    IN [outcome |-> "returned", result |-> PyBool(error # None), pulled |-> r.pulled]

\* is_valid: error = next(self.iter_errors(data, ...), None); return error is None
is_valid(stream, pulled) ==
    LET r == iter_errors(stream, pulled)
        error == IF r.item = StopIteration THEN None ELSE r.item
    IN [outcome |-> "returned", result |-> PyBool(error = None), pulled |-> r.pulled]

\* A variant of decode that raises a validation error in every mode.
decode_AlwaysRaise(stream, validation) ==
    LET chunk == next_chunk(stream, 0) IN
    IF chunk = StopIteration
        THEN [outcome |-> "returned", result |-> None, pulled |-> 1]
    ELSE IF isinstance_XMLSchemaValidationError(chunk)
        THEN [outcome |-> "raised", result |-> chunk, pulled |-> 1]
    ELSE [outcome |-> "returned", result |-> chunk, pulled |-> 1]

\* A variant of decode that tests for the wrong mode.
decode_WrongMode(stream, validation) ==
    LET chunk == next_chunk(stream, 0) IN
    IF chunk = StopIteration
        THEN [outcome |-> "returned", result |-> None, pulled |-> 1]
    ELSE IF isinstance_XMLSchemaValidationError(chunk) /\ validation = "lax"
        THEN [outcome |-> "raised", result |-> chunk, pulled |-> 1]
    ELSE [outcome |-> "returned", result |-> chunk, pulled |-> 1]

\* decode, after validation = kwargs.pop('validation', 'strict'):
\*     for chunk in self.iter_decode(data, validation=validation, ...):
\*         if isinstance(chunk, XMLSchemaValidationError) and validation == 'strict':
\*             raise chunk
\*         return chunk
\* A stream that ends at once ends the loop and the method returns None.
decode(stream, validation) ==
    LET chunk == next_chunk(stream, 0) IN
    IF chunk = StopIteration
        THEN [outcome |-> "returned", result |-> None, pulled |-> 1]
    ELSE IF isinstance_XMLSchemaValidationError(chunk) /\ validation = "strict"
        THEN [outcome |-> "raised", result |-> chunk, pulled |-> 1]
    ELSE [outcome |-> "returned", result |-> chunk, pulled |-> 1]

\* A variant of encode that never raises.
encode_Lenient(stream, validation) ==
    LET chunk == next_chunk(stream, 0) IN
    IF chunk = StopIteration
        THEN [outcome |-> "returned", result |-> None, pulled |-> 1]
        ELSE [outcome |-> "returned", result |-> chunk, pulled |-> 1]

\* encode: the same loop over self.iter_encode.
encode(stream, validation) ==
    LET chunk == next_chunk(stream, 0) IN
    IF chunk = StopIteration
        THEN [outcome |-> "returned", result |-> None, pulled |-> 1]
    ELSE IF isinstance_XMLSchemaValidationError(chunk) /\ validation = "strict"
        THEN [outcome |-> "raised", result |-> chunk, pulled |-> 1]
    ELSE [outcome |-> "returned", result |-> chunk, pulled |-> 1]

\* A caller invokes validate / iter_errors / is_valid on node n with data: the
\* generator objects are created, nothing is pulled yet.  iter_errors passes
\* validation='lax' to iter_decode.
CallErrors(op, n, data) ==
    /\ call.pc = "idle"
    /\ call' = [NoCall EXCEPT !.pc = "called", !.op = op, !.node = n,
                              !.validation = "lax", !.stream = data]
    /\ UNCHANGED <<check_token, _check_token, _valid, hist, audit, pass>>

\* A caller invokes decode / encode on node n with data and a validation argument.
CallCodec(op, n, data, arg) ==
    /\ call.pc = "idle"
    /\ call' = [NoCall EXCEPT !.pc = "called", !.op = op, !.node = n, !.arg = arg,
                              !.validation = kwargs_pop(arg, "strict"), !.stream = data]
    /\ UNCHANGED <<check_token, _check_token, _valid, hist, audit, pass>>

Finish(r) ==
    call' = [call EXCEPT !.pc = "done", !.outcome = r.outcome,
                         !.result = r.result, !.pulled = r.pulled]

\* The body of validate runs to its raise or return.
RunValidate ==
    /\ call.pc = "called" /\ call.op = "validate"
    /\ Finish(LET g == iter_decode(call.node, call.stream) IN
              IF g.raised THEN Unsupported ELSE validate(g.stream, call.pulled))
    /\ UNCHANGED <<check_token, _check_token, _valid, hist, audit, pass>>

\* The body of is_valid runs to its return.
RunIsValid ==
    /\ call.pc = "called" /\ call.op = "is_valid"
    /\ Finish(LET g == iter_decode(call.node, call.stream) IN
              IF g.raised THEN Unsupported ELSE is_valid(g.stream, call.pulled))
    /\ UNCHANGED <<check_token, _check_token, _valid, hist, audit, pass>>

\* A variant of decode that records in the node whether the data was valid.
RunDecode_Recording ==
    /\ call.pc = "called" /\ call.op = "decode"
    /\ LET g == iter_decode(call.node, call.stream)
           r == IF g.raised THEN Unsupported ELSE decode(g.stream, call.validation)
       IN /\ Finish(r)
          /\ _valid' = IF call.node \in Node
                           THEN [_valid EXCEPT ![call.node] =
                                    IF r.outcome = "raised" THEN "False" ELSE "True"]
                           ELSE _valid
    /\ UNCHANGED <<check_token, _check_token, hist, audit, pass>>

\* The body of decode runs to its raise or return.
RunDecode ==
    /\ call.pc = "called" /\ call.op = "decode"
    /\ Finish(LET g == iter_decode(call.node, call.stream) IN
              IF g.raised THEN Unsupported ELSE decode(g.stream, call.validation))
    /\ UNCHANGED <<check_token, _check_token, _valid, hist, audit, pass>>

\* The body of encode runs to its raise or return.
RunEncode ==
    /\ call.pc = "called" /\ call.op = "encode"
    /\ Finish(LET g == iter_encode(call.node, call.stream) IN
              IF g.raised THEN Unsupported ELSE encode(g.stream, call.validation))
    /\ UNCHANGED <<check_token, _check_token, _valid, hist, audit, pass>>

\* The consumer of the generator iter_errors asks for its next item.
NextIterErrors ==
    /\ call.pc = "called" /\ call.op = "iter_errors"
    /\ LET g == iter_decode(call.node, call.stream)
           r == iter_errors(g.stream, call.pulled)
       IN
       IF g.raised
           THEN Finish(Unsupported)
       ELSE IF r.item = StopIteration
           THEN call' = [call EXCEPT !.pc = "done", !.outcome = "exhausted",
                                     !.pulled = r.pulled]
           ELSE call' = [call EXCEPT !.yielded = Append(@, r.item),
                                     !.pulled = r.pulled]
    /\ UNCHANGED <<check_token, _check_token, _valid, hist, audit, pass>>

\* The consumer drops the generator iter_errors before its end.
CloseIterErrors ==
    /\ call.pc = "called" /\ call.op = "iter_errors"
    /\ call' = [call EXCEPT !.pc = "done", !.outcome = "closed"]
    /\ UNCHANGED <<check_token, _check_token, _valid, hist, audit, pass>>

\* The caller has its result; the next call can start.
Return ==
    /\ call.pc = "done"
    /\ call' = NoCall
    /\ UNCHANGED <<check_token, _check_token, _valid, hist, audit, pass>>

\* A caller reads the property checked of node n:
\*     return self._check_token == self.check_token
GetChecked(n) ==
    /\ call.pc = "idle"
    /\ call' = LET t == get_check_token(n)
                   r == IF t.raised
                            THEN Unsupported
                            ELSE [outcome |-> "returned", pulled |-> 0,
                                  result |-> PyBool(_check_token[n] = t.value)]
               IN [NoCall EXCEPT !.pc = "done", !.op = "checked", !.node = n,
                                 !.outcome = r.outcome, !.result = r.result]
    /\ UNCHANGED <<check_token, _check_token, _valid, hist, audit, pass>>

NextProtocol ==
    \/ \E op \in {"validate", "iter_errors", "is_valid"}, n \in Node, data \in Streams :
           CallErrors(op, n, data)
    \/ \E op \in {"decode", "encode"}, n \in Node, data \in Streams, arg \in ValidationArgs :
           CallCodec(op, n, data, arg)
    \/ RunValidate
    \/ RunIsValid
    \/ RunDecode
    \/ RunEncode
    \/ NextIterErrors
    \/ CloseIterErrors
    \/ Return

SpecProtocol == Init /\ [][NextProtocol]_vars

\* The same callers and a node of the base class.
NextAbstract ==
    \/ \E op \in {"validate", "iter_errors", "is_valid"}, n \in Abstract, data \in Streams :
           CallErrors(op, n, data)
    \/ \E op \in {"decode", "encode"}, n \in Abstract, data \in Streams, arg \in ValidationArgs :
           CallCodec(op, n, data, arg)
    \/ RunValidate
    \/ RunIsValid
    \/ RunDecode
    \/ RunEncode
    \/ NextIterErrors
    \/ CloseIterErrors
    \/ \E n \in Node \cup Abstract : GetChecked(n)
    \/ Return

SpecAbstract == Init /\ [][NextAbstract]_vars

\* The drivers interleaved with the tracker operations on the same nodes: the
\* streams are one of each case (empty, a value, an error, an error before a
\* value, two errors), a call can be in progress while check(), an assignment
\* of _valid or a change of the check token happens.
FrameStreams ==
    {<<>>,
     <<DecodedValue>>,
     <<XMLSchemaValidationError(1)>>,
     <<XMLSchemaValidationError(1), DecodedValue>>,
     <<XMLSchemaValidationError(1), XMLSchemaValidationError(2)>>}

FrameArgs == {"absent", "lax"}

NextFrame ==
    \/ \E n \in Node : check(n) /\ UNCHANGED <<audit, pass>>
    \/ \E n \in Node, value \in {"False", "other"} :
           __setattr__(n, value) /\ UNCHANGED <<audit, pass>>
    \/ \E t \in Tokens : NewToken(t) /\ UNCHANGED <<audit, pass>>
    \/ \E op \in {"validate", "iter_errors", "is_valid"}, n \in Node, data \in FrameStreams :
           CallErrors(op, n, data)
    \/ \E op \in {"decode", "encode"}, n \in Node, data \in FrameStreams, arg \in FrameArgs :
           CallCodec(op, n, data, arg)
    \/ RunValidate
    \/ RunIsValid
    \/ RunDecode
    \/ RunEncode
    \/ NextIterErrors
    \/ CloseIterErrors
    \/ Return

SpecFrame == Init /\ [][NextFrame]_vars

Next == NextTracker \/ NextProtocol

Spec == Init /\ [][Next]_vars

---------------------------------------------------------------------------
(* Claims about the validity tracker (checked under SpecTracker) *)

\* C1: a node on which check() has never been called reports validity
\* 'notKnown' and validation_attempted 'none', whatever check_token returns.
C1_NeverCheckedNotKnown ==
    \A n \in Node :
        ~hist.everChecked[n] =>
            /\ validity(n) = "notKnown"
            /\ validation_attempted(n) = "none"

\* C2: immediately after check() on a node (before the token changes) the node
\* is checked and its validity is 'valid' or 'invalid', never 'notKnown'.
C2_CheckStamps ==
    hist.last.op = "check" =>
        /\ checked(hist.last.node)
        /\ validity(hist.last.node) \in {"valid", "invalid"}

\* C2 witness: check() has just run on a node under a token that is not None,
\* while the other node carries the compiler's 'invalid' marking.
C2_Witness ==
    /\ hist.last.op = "check"
    /\ check_token # NoneToken
    /\ checked(hist.last.node)
    /\ validity(hist.last.node) = "valid"
    /\ \E m \in Node : m # hist.last.node /\ _valid[m] = "False"

\* C3: a node checked under one generation, with the token now at another
\* generation and no check() since, is not checked and reports 'notKnown' and
\* 'none' (and valid None), whatever validity value is stored.
C3_Freshness ==
    \A n \in Node :
        (hist.everChecked[n] /\ hist.checkedUnder[n] # check_token) =>
            /\ ~checked(n)
            /\ valid(n) = "None"
            /\ validity(n) = "notKnown"
            /\ validation_attempted(n) = "none"

\* C3 witness: a checked node went stale with 'invalid' stored, another with
\* 'valid' stored.
C3_Witness ==
    /\ hist.last.op = "new_token"
    /\ \A n \in Node : hist.everChecked[n] /\ hist.checkedUnder[n] # check_token
    /\ _valid["A"] = "False"
    /\ _valid["B"] = "True"
    /\ validity("A") = "notKnown"
    /\ validity("B") = "notKnown"

---------------------------------------------------------------------------
(* Claims about the drivers (checked under SpecProtocol) *)

\* The validation errors of a stream, in the order of the stream.
ErrorsOf(stream) == SelectSeq(stream, isinstance_XMLSchemaValidationError)

\* The place of the first validation error of a stream that has one.
FirstErrorIndex(stream) ==
    CHOOSE k \in 1..Len(stream) :
        /\ isinstance_XMLSchemaValidationError(stream[k])
        /\ \A j \in 1..(k - 1) : ~isinstance_XMLSchemaValidationError(stream[j])

CodecDone ==
    call.pc = "done" /\ call.op \in {"decode", "encode"}

\* C4: decode in 'strict' mode (given, or by default) raises a validation
\* error if and only if iter_errors yields at least one error for the same
\* data, for every stream of the documented shape.
C4_StrictRaisesIffErrors ==
    (/\ call.pc = "done" /\ call.op = "decode"
     /\ call.validation = "strict"
     /\ Documented(call.stream)) =>
        ((call.outcome = "raised" /\ isinstance_XMLSchemaValidationError(call.result))
            <=> iter_errors(call.stream, 0).item # StopIteration)

\* C4 witness: decode without a validation argument raised the first of two
\* errors that precede the value.
C4_Witness ==
    /\ call.pc = "done" /\ call.op = "decode"
    /\ call.arg = "absent" /\ call.validation = "strict"
    /\ call.stream = <<XMLSchemaValidationError(1), XMLSchemaValidationError(2), DecodedValue>>
    /\ call.outcome = "raised"
    /\ call.result = XMLSchemaValidationError(1)

\* C5: decode and encode in 'lax' or 'skip' mode return the first item of the
\* stream that is not a validation error; what they return is never a
\* validation error.
C5_NonStrictReturnsFirstValue ==
    (/\ CodecDone
     /\ call.validation \in {"lax", "skip"}
     /\ call.outcome = "returned") =>
        /\ ~isinstance_XMLSchemaValidationError(call.result)
        /\ \A k \in 1..Len(call.stream) :
             (/\ ~isinstance_XMLSchemaValidationError(call.stream[k])
              /\ \A j \in 1..(k - 1) : isinstance_XMLSchemaValidationError(call.stream[j]))
                 => call.result = call.stream[k]

C7_IterErrorsFilters ==
    call.op = "iter_errors" =>
        /\ call.validation = "lax"
        /\ Len(call.yielded) <= Len(ErrorsOf(call.stream))
        /\ call.yielded = SubSeq(ErrorsOf(call.stream), 1, Len(call.yielded))
        /\ call.outcome = "exhausted" => call.yielded = ErrorsOf(call.stream)

\* C7 witness: two different errors around a value, yielded in stream order.
C7_Witness ==
    /\ call.op = "iter_errors" /\ call.outcome = "exhausted"
    /\ call.stream = <<XMLSchemaValidationError(2), DecodedValue, XMLSchemaValidationError(1)>>
    /\ call.yielded = <<XMLSchemaValidationError(2), XMLSchemaValidationError(1)>>

\* C8: validate raises the first validation error of the stream when there is
\* one, and returns normally exactly when there is none.
C8_ValidateRaisesFirst ==
    (call.pc = "done" /\ call.op = "validate") =>
        IF ErrorsOf(call.stream) = <<>>
            THEN call.outcome = "returned" /\ call.result = None
            ELSE call.outcome = "raised" /\ call.result = Head(ErrorsOf(call.stream))

\* C8 witness: validate raised the first of two different errors.
C8_Witness ==
    /\ call.pc = "done" /\ call.op = "validate"
    /\ call.stream = <<XMLSchemaValidationError(2), XMLSchemaValidationError(1), DecodedValue>>
    /\ call.outcome = "raised"
    /\ call.result = XMLSchemaValidationError(2)

\* C9: is_valid returns True exactly when the lax stream holds no validation
\* error, and False otherwise.
C9_IsValidIffNoError ==
    (call.pc = "done" /\ call.op = "is_valid") =>
        /\ call.outcome = "returned"
        /\ call.validation = "lax"
        /\ call.result = PyBool(ErrorsOf(call.stream) = <<>>)

\* C9 witness: is_valid returned False for a stream whose error follows a value.
C9_Witness ==
    /\ call.pc = "done" /\ call.op = "is_valid"
    /\ call.stream = <<DecodedValue, XMLSchemaValidationError(1)>>
    /\ call.result = PyBool(FALSE)

\* C10: a driver stops pulling once its outcome is decided: validate and
\* is_valid have asked for exactly the items up to the first validation error
\* (or found the end of a stream without one), decode and encode for one item,
\* and iter_errors, while suspended, for the items up to the error it yielded last.
C10_DriversShortCircuit ==
    /\ (call.pc = "done" /\ call.op \in {"validate", "is_valid"}) =>
          call.pulled = IF ErrorsOf(call.stream) = <<>>
                            THEN Len(call.stream) + 1
                            ELSE FirstErrorIndex(call.stream)
    /\ CodecDone => call.pulled = 1
    /\ (call.op = "iter_errors" /\ call.outcome # "exhausted" /\ call.yielded # <<>>) =>
          /\ call.pulled <= Len(call.stream)
          /\ call.stream[call.pulled] = call.yielded[Len(call.yielded)]
          /\ Len(ErrorsOf(SubSeq(call.stream, 1, call.pulled))) = Len(call.yielded)
    /\ (call.op = "iter_errors" /\ call.yielded = <<>> /\ call.outcome # "exhausted") =>
          call.pulled = 0

\* C10 witness: validate raised the first error and left the rest of the
\* stream unrequested.
C10_Witness ==
    /\ call.pc = "done" /\ call.op = "validate"
    /\ call.outcome = "raised"
    /\ call.pulled = 1
    /\ Len(call.stream) = MaxStreamLen

---------------------------------------------------------------------------
(* Claims about the check pass (checked under SpecPass) *)

---------------------------------------------------------------------------
(* Claims about a node of the base class (checked under SpecAbstract) *)

\* C12: on a node kind that supplies none of the abstract members, decode,
\* validate, is_valid, encode, a started iter_errors and the property checked
\* end with NotImplementedError, in every validation mode: never with a
\* validation error, never with a returned value.
C12_UnsupportedRaises ==
    (/\ call.pc = "done" /\ call.node \in Abstract
     /\ call.outcome # "closed") =>
        /\ call.outcome = "raised"
        /\ call.result = NotImplementedError
        /\ ~isinstance_XMLSchemaValidationError(call.result)

\* C12 witness: decode in 'skip' mode on the base node, for data that a
\* concrete node would decode without error, raised NotImplementedError.
C12_Witness ==
    /\ call.pc = "done" /\ call.node \in Abstract
    /\ call.op = "decode" /\ call.validation = "skip"
    /\ call.stream = <<DecodedValue>>
    /\ call.outcome = "raised"
    /\ call.result = NotImplementedError

---------------------------------------------------------------------------
(* Claims about the validation mode (checked under SpecProtocol) *)

\* C13: decode and encode called with a validation mode that is none of
\* 'strict', 'lax', 'skip' fail with an error: they do not return.
C13_UnknownModeRejected ==
    (CodecDone /\ call.validation \notin XSD_VALIDATION_MODES) =>
        /\ call.outcome = "raised"
        /\ ~isinstance_XMLSchemaValidationError(call.result)

\* C17: encode mirrors decode: for the same mode and the same stream a
\* finished decode or encode has the outcome, the returned or raised item and
\* the number of requested items that both decode and encode compute.
C17_EncodeMirrorsDecode ==
    CodecDone =>
        LET r == [outcome |-> call.outcome, result |-> call.result, pulled |-> call.pulled] IN
        /\ r = decode(call.stream, call.validation)
        /\ r = encode(call.stream, call.validation)

\* C17 witness: a strict encode raised the error that precedes the value.
C17_Witness ==
    /\ CodecDone /\ call.op = "encode"
    /\ call.validation = "strict"
    /\ call.stream = <<XMLSchemaValidationError(2), DecodedValue>>
    /\ call.outcome = "raised"
    /\ call.result = XMLSchemaValidationError(2)

---------------------------------------------------------------------------
(* More claims about the validity tracker (checked under SpecTracker) *)

\* C14: the stored validity state is always one of True, False, None; an
\* assignment of another value is rejected and leaves the stored validity
\* state and the stored token as they were.
C14_ValidityStateDomain ==
    /\ [](\A n \in Node : _valid[n] \in {"True", "False", "None"})
    /\ [][hist'.last.op = "setattr_raised" =>
            (_valid' = _valid /\ _check_token' = _check_token)]_vars

\* C14 witness: an assignment was rejected on a checked node marked invalid.
C14_Witness ==
    /\ hist.last.op = "setattr_raised"
    /\ checked(hist.last.node)
    /\ _valid[hist.last.node] = "False"

\* C16: a check() that directly follows a check() on the same node in the
\* same generation changes neither the stored token nor the stored validity,
\* nor what checked and validity report.
C16_CheckIdempotent ==
    [][\A n \in Node :
          (/\ hist.last = [op |-> "check", node |-> n]
           /\ hist'.last = [op |-> "check", node |-> n]
           /\ audit'.checks[n] = audit.checks[n] + 1) =>
              /\ _check_token'[n] = _check_token[n]
              /\ _valid'[n] = _valid[n]
              /\ checked(n)' = checked(n)
              /\ validity(n)' = validity(n)]_vars

\* C16 witness: check() has run twice in a row on a node in one generation.
C16_Witness ==
    \E n \in Node :
        /\ hist.last = [op |-> "check", node |-> n]
        /\ audit.checks[n] >= 2
        /\ audit.lastWrite[n] = "check"
        /\ ~audit.overwrote[n]
        /\ validity(n) = "valid"

\* C18: what the properties report agrees with the freshness test
\* _check_token == check_token on the stored state.
Fresh(n) == _check_token[n] = check_token

C18_ReportsAgreeWithFreshness ==
    \A n \in Node :
        /\ checked(n) <=> Fresh(n)
        /\ validity(n) = "valid" <=> (Fresh(n) /\ _valid[n] = "True")
        /\ validity(n) = "invalid" <=> (Fresh(n) /\ _valid[n] = "False")
        /\ validity(n) = "notKnown" <=> ~(Fresh(n) /\ _valid[n] \in {"True", "False"})
        /\ valid(n) = IF Fresh(n) THEN _valid[n] ELSE "None"
        /\ validation_attempted(n) = "full" <=> Fresh(n)
        /\ validation_attempted(n) = "none" <=> ~Fresh(n)
        /\ validity(n) # "notKnown" => validation_attempted(n) = "full"

\* C18 witness: a fresh node marked invalid beside a stale node with True stored.
C18_Witness ==
    /\ Fresh("A") /\ _valid["A"] = "False" /\ validity("A") = "invalid"
    /\ ~Fresh("B") /\ _valid["B"] = "True" /\ validity("B") = "notKnown"
    /\ validation_attempted("B") = "none"

\* C19: a node reports checked only if check() was called on it since the
\* check token last changed.
C19_CheckedOnlyIfStampedThisPass ==
    \A n \in Node : checked(n) => audit.checks[n] > 0

\* C20: check() stores True whatever was stored: after a check() the node
\* reports 'valid', and 'invalid' is reported only when the compiler's
\* assignment is the last write of the stored state, after every check().
C20_CheckOverridesMarking ==
    \A n \in Node :
        /\ audit.lastWrite[n] = "check" => _valid[n] = "True"
        /\ hist.last = [op |-> "check", node |-> n] => validity(n) = "valid"
        /\ validity(n) = "invalid" => audit.lastWrite[n] = "setattr"

\* C20 witness: check() has just run on a node that carried the compiler's
\* marking False in this generation, and the node reports 'valid'.
C20_Witness ==
    \E n \in Node :
        /\ hist.last = [op |-> "check", node |-> n]
        /\ audit.overwrote[n]
        /\ audit.checks[n] >= 2
        /\ validity(n) = "valid"

---------------------------------------------------------------------------
(* The frame of the drivers (checked under SpecFrame) *)

\* A step of a driver: the call record changes.
DriverStep == call' # call

\* C15: no step of validate, iter_errors, is_valid, decode or encode, whether
\* it calls, yields, returns, raises or closes the generator, changes a
\* node's stored token or stored validity state, so checked and validity
\* read the same before and after it; the stored token changes only in a
\* step of check().
C15_DriversFrame ==
    /\ [][DriverStep =>
            /\ _check_token' = _check_token
            /\ _valid' = _valid
            /\ \A n \in Node : /\ checked(n)' = checked(n)
                               /\ validity(n)' = validity(n)]_vars
    /\ [][_check_token' # _check_token => hist'.last.op = "check"]_vars

\* C15 witness: the generator iter_errors was closed after its first error
\* of two, on a node that check() stamped and the compiler marked invalid
\* under a token that is not None.
C15_Witness ==
    /\ call.pc = "done" /\ call.op = "iter_errors" /\ call.outcome = "closed"
    /\ Len(call.yielded) = 1 /\ Len(call.stream) = 2
    /\ check_token # NoneToken
    /\ checked(call.node) /\ validity(call.node) = "invalid"
    /\ hist.last = [op |-> "setattr", node |-> call.node]

=============================================================================
